---- MODULE Spec2Model ----
(***************************************************************************)
(* A model of the tube-inotify crate (crates/tube-inotify/src/inotify.rs): *)
(* the session (Inotify: descriptor + watch registry), the stream adapter  *)
(* (Stream::poll_next) and the batch decoder (InotifyEventBatch /          *)
(* InotifyEvent::from_buffer).  The native calls (inotify_init1,           *)
(* inotify_add_watch, poll, read, close) are the environment: their        *)
(* results are drawn from small sets.  Inotify::new(self) is with_flags(0) *)
(* after the session handed in is dropped, and has no action of its own.   *)
(* The earlier session of lib.rs (Inotify with InotifyWatch values,        *)
(* watch, watch_recursive) is modelled next to it, on variables of its own *)
(* and under a specification of its own (LibSpec); its environment is the  *)
(* native calls and the directory tree that watch_recursive walks.         *)
(***************************************************************************)
EXTENDS Integers, Sequences, FiniteSets, TLC

(***************************************************************************)
(* Program constants.                                                      *)
(***************************************************************************)
SYSCALL_ERROR == -1
\* size_of::<ffi::inotify_event>(): four 4-byte fields, repr(C).
HeaderSize == 16
\* the fixed buffer of poll_next, and N of InotifyEventBatch<4096>.
BufferCap == 4096
POLLIN == 1
IN_OPEN == 32
IN_CREATE == 256
IN_DELETE == 512
\* usize::MAX.  `bytes_read as usize` wraps a negative isize to
\* usize::MAX + 1 + bytes_read (2^64 - 1 for read's -1).  TLC's integers are
\* 32-bit, so usize::MAX is kept as the largest integer TLC has; num_bytes
\* is only ever compared with pos <= BufferCap, so every value above
\* BufferCap behaves the same.
UsizeMax == 2147483647
\* u32::MAX, what `n - 1` gives for n = 0 where overflow is not checked.  As
\* for usize::MAX the largest integer TLC has stands for it; a depth is only
\* ever decremented, by at most the height of the tree.
U32Max == 2147483647

(***************************************************************************)
(* Bounds of the model.                                                    *)
(***************************************************************************)
MaxPolls == 2
MaxWatches == 2
MaxWd == 2
MaxRecs == 2
\* largest depth bound handed to watch_recursive of lib.rs
MaxDepth == 2
\* calls made on a session of lib.rs
MaxLibCalls == 3

Paths == {"test.file", "Cargo.lock"}
WatchIds == 1..MaxWd
Fds == {3}

Min(S) == CHOOSE m \in S : \A o \in S : m <= o

(***************************************************************************)
(* Bytes.  A buffer is [0u8; 4096] whose first bytes were overwritten by   *)
(* read: it is kept as the written prefix `data`, the rest being zero.     *)
(* Indices are 0-based as in the code.                                     *)
(***************************************************************************)
ByteAt(data, i) == IF i < Len(data) THEN data[i + 1] ELSE 0

\* a native-endian (little-endian) u32 field of the header at offset i.
U32At(data, i) ==
    ByteAt(data, i) + 256 * ByteAt(data, i + 1) + 65536 * ByteAt(data, i + 2)
        + 16777216 * ByteAt(data, i + 3)

\* a native-endian i32 field (the wd): the top byte carries the sign.
I32At(data, i) ==
    LET b3 == ByteAt(data, i + 3)
    IN  ByteAt(data, i) + 256 * ByteAt(data, i + 1) + 65536 * ByteAt(data, i + 2)
            + 16777216 * (IF b3 >= 128 THEN b3 - 256 ELSE b3)

\* buffer[from .. from + n), as a sequence.
SliceBytes(data, from, n) == [i \in 1..n |-> ByteAt(data, from + i - 1)]

\* Option<OsString>
None == [some |-> FALSE, bytes |-> <<>>]
Some(s) == [some |-> TRUE, bytes |-> s]

\* slice.splitn(2, |c| c == &0u8).next(): the part before the first NUL, or
\* the whole slice when it holds none.  splitn yields at least one item, also
\* for the empty slice, so the result is always Some.
SplitFirst(s) ==
    LET zs == {i \in 1..Len(s) : s[i] = 0}
    IN  Some(IF zs = {} THEN s ELSE SubSeq(s, 1, Min(zs) - 1))

\* the value standing for "no event" where a call produced none.
NoEvent == [wd |-> 0, mask |-> 0, cookie |-> 0, name |-> None]

(***************************************************************************)
(* InotifyEvent::from_buffer(&buffer[pos..]).  The slice handed in runs to *)
(* the end of the array (BufferCap), not to num_bytes.  Result: either a   *)
(* panic (the assert, or the slice index out of range) or (size, event);   *)
(* hi is the end (exclusive, as an index of the array) of the bytes read.  *)
(***************************************************************************)
from_buffer(data, pos) ==
    LET sliceLen  == BufferCap - pos
        len       == U32At(data, pos + 12)
        event_end == HeaderSize + len
    IN  IF sliceLen < HeaderSize
        THEN [panic |-> "assert", size |-> 0, hi |-> pos, event |-> NoEvent]
        ELSE IF event_end > sliceLen
        THEN [panic |-> "slice", size |-> 0, hi |-> pos + HeaderSize, event |-> NoEvent]
        ELSE [panic |-> "", size |-> event_end, hi |-> pos + event_end,
              event |-> [wd     |-> I32At(data, pos),
                         mask   |-> U32At(data, pos + 4),
                         cookie |-> U32At(data, pos + 8),
                         name   |-> SplitFirst(SliceBytes(data, pos + HeaderSize, len))]]

(***************************************************************************)
(* InotifyEventBatch::next on (buffer, num_bytes, pos).  out is "None",    *)
(* "Some" or "panic".                                                      *)
(***************************************************************************)
batch_next(b) ==
    IF b.pos >= b.num_bytes
    THEN [out |-> "None", pos |-> b.pos, hi |-> b.pos, event |-> NoEvent, why |-> ""]
    ELSE LET r == from_buffer(b.buffer, b.pos)
         IN  IF r.panic # ""
             THEN [out |-> "panic", pos |-> b.pos, hi |-> r.hi, event |-> NoEvent, why |-> r.panic]
             ELSE [out |-> "Some", pos |-> b.pos + r.size, hi |-> r.hi, event |-> r.event, why |-> ""]

\* InotifyEventBatch::new(buffer, num_bytes)
batch_new(data, num_bytes) == [buffer |-> data, num_bytes |-> num_bytes, pos |-> 0]

\* `bytes_read as usize`
as_usize(n) == IF n < 0 THEN UsizeMax + (n + 1) ELSE n

(***************************************************************************)
(* The session: Inotify { fd, watchers }.                                  *)
(***************************************************************************)
EmptyMap == [w \in {} |-> ""]

\* HashMap::insert: the entry under key k is set, replacing an old one.
MapInsert(m, k, v) == [w \in DOMAIN m \cup {k} |-> IF w = k THEN v ELSE m[w]]

\* Inotify::with_flags on the result of inotify_init1.
with_flags(ret) ==
    IF ret = SYSCALL_ERROR
    THEN [ok |-> FALSE, fd |-> -1, watchers |-> EmptyMap]
    ELSE [ok |-> TRUE, fd |-> ret, watchers |-> EmptyMap]

\* watch that keeps the entry an id already has (no replacement).
watch_keeps_old(ws, pathname, wd) ==
    IF wd = SYSCALL_ERROR
    THEN [ok |-> FALSE, alive |-> FALSE, watchers |-> ws]
    ELSE [ok |-> TRUE, alive |-> TRUE,
          watchers |-> IF wd \in DOMAIN ws THEN ws ELSE MapInsert(ws, wd, pathname)]

\* Inotify::watch on the result wd of inotify_add_watch.  watch takes self
\* by value: on Err the session is not handed back, so it is dropped.
watch(ws, pathname, wd) ==
    IF wd = SYSCALL_ERROR
    THEN [ok |-> FALSE, alive |-> FALSE, watchers |-> ws]
    ELSE [ok |-> TRUE, alive |-> TRUE, watchers |-> MapInsert(ws, wd, pathname)]

\* Inotify::path_for_watch: "" stands for None.
path_for_watch(ws, wd) == IF wd \in DOMAIN ws THEN ws[wd] ELSE ""

\* a drop that leaves the descriptor open.
drop_leaks(k) == k

\* impl Drop for Inotify, on the kernel's view k of the descriptor:
\* one close(fd).
drop(k) == [open |-> FALSE, closes |-> k.closes + 1]

\* events_ready that takes any returned event for readability.
events_ready_any(ret, revents) ==
    IF ret = SYSCALL_ERROR THEN "Err"
    ELSE IF ret < 0 THEN "panic"
    ELSE IF ret # 0 THEN "true"
    ELSE "false"

\* Inotify::events_ready on poll's return value and the revents it filled.
events_ready(ret, revents) ==
    IF ret = SYSCALL_ERROR THEN "Err"
    ELSE IF ret < 0 THEN "panic"
    ELSE IF ret # 0 /\ (revents \div POLLIN) % 2 = 1 THEN "true"
    ELSE "false"

NoBatch == [buffer |-> <<>>, num_bytes |-> 0, pos |-> 0]

\* poll_next with the readiness gate broken: it reads whenever the
\* readiness poll did not fail.
poll_next_ungated(er, rd) ==
    IF er = "Err"
    THEN [ret |-> "Err", reads |-> 0, woke |-> 0, batch |-> NoBatch]
    ELSE [ret |-> "Batch", reads |-> 1, woke |-> 1,
          batch |-> batch_new(rd.data, as_usize(rd.n))]

\* poll_next that reads although the readiness poll failed.
poll_next_reads_on_error(er, rd) ==
    IF er = "false"
    THEN [ret |-> "Pending", reads |-> 0, woke |-> 0, batch |-> NoBatch]
    ELSE [ret |-> (IF er = "Err" THEN "Err" ELSE "Batch"), reads |-> 1, woke |-> 1,
          batch |-> batch_new(rd.data, as_usize(rd.n))]

\* poll_next that ends the stream (Ready(None)) when the read returned
\* nothing.
poll_next_ends(er, rd) ==
    IF er = "Err"
    THEN [ret |-> "Err", reads |-> 0, woke |-> 0, batch |-> NoBatch]
    ELSE IF er = "false"
    THEN [ret |-> "Pending", reads |-> 0, woke |-> 0, batch |-> NoBatch]
    ELSE IF rd.n <= 0
    THEN [ret |-> "End", reads |-> 1, woke |-> 0, batch |-> NoBatch]
    ELSE [ret |-> "Batch", reads |-> 1, woke |-> 1,
          batch |-> batch_new(rd.data, as_usize(rd.n))]

\* poll_next that wakes the task before it returns Pending.
poll_next_wakes_pending(er, rd) ==
    IF er = "Err"
    THEN [ret |-> "Err", reads |-> 0, woke |-> 0, batch |-> NoBatch]
    ELSE IF er = "false"
    THEN [ret |-> "Pending", reads |-> 0, woke |-> 1, batch |-> NoBatch]
    ELSE [ret |-> "Batch", reads |-> 1, woke |-> 1,
          batch |-> batch_new(rd.data, as_usize(rd.n))]

\* Stream::poll_next, given the readiness result er and what read would
\* return (rd.n bytes_read, rd.data the bytes written into the buffer).
\* reads and woke count the read syscalls and the waker calls of the call.
poll_next(er, rd) ==
    IF er = "panic"
    THEN [ret |-> "panic", reads |-> 0, woke |-> 0, batch |-> NoBatch]
    ELSE IF er = "Err"
    THEN [ret |-> "Err", reads |-> 0, woke |-> 0, batch |-> NoBatch]
    ELSE IF er = "false"
    THEN [ret |-> "Pending", reads |-> 0, woke |-> 0, batch |-> NoBatch]
    ELSE [ret |-> "Batch", reads |-> 1, woke |-> 1,
          batch |-> batch_new(rd.data, as_usize(rd.n))]

(***************************************************************************)
(* The environment.  The kernel writes records laid out as                 *)
(* ffi::inotify_event { wd, mask, cookie, len } followed by len bytes of   *)
(* name (NUL-terminated, NUL-padded).                                      *)
(***************************************************************************)
LE32(v) == <<v % 256, (v \div 256) % 256, (v \div 65536) % 256, (v \div 16777216) % 256>>

Zeros(n) == [i \in 1..n |-> 0]

\* r.name is the name the record carries (None: no name), r.len its name
\* length field.
EncodeRecord(r) ==
    LE32(r.wd) \o LE32(r.mask) \o LE32(r.cookie) \o LE32(r.len)
        \o r.name.bytes \o Zeros(r.len - Len(r.name.bytes))

RECURSIVE EncodeAll(_)
EncodeAll(rs) == IF rs = <<>> THEN <<>> ELSE EncodeRecord(Head(rs)) \o EncodeAll(Tail(rs))

\* "a.txt"
NameATxt == <<97, 46, 116, 120, 116>>

\* "b"
NameB == <<98>>

\* the records the kernel may queue: no name with name length 0, or a name
\* NUL-padded to its name length.
KernelRecords ==
    {[wd |-> 3, mask |-> IN_CREATE, cookie |-> 0, name |-> Some(NameATxt), len |-> 8],
     [wd |-> 3, mask |-> IN_DELETE, cookie |-> 0, name |-> None, len |-> 0],
     [wd |-> 1, mask |-> IN_OPEN, cookie |-> 7, name |-> None, len |-> 0],
     [wd |-> 1, mask |-> IN_CREATE + IN_DELETE, cookie |-> 7, name |-> Some(NameB), len |-> 16]}

SeqsUpTo(S, n) == UNION {[1..k -> S] : k \in 0..n}

\* what read(fd, buffer, 4096) can hand back: n is its return value, data
\* the bytes it wrote; recs are the records encoded (kind "wf"), kept to
\* state what a decode should yield.
WellFormedReads ==
    {[n |-> Len(EncodeAll(rs)), data |-> EncodeAll(rs), recs |-> rs, kind |-> "wf"] :
        rs \in SeqsUpTo(KernelRecords, MaxRecs)}

\* read failed: -1, nothing written.
ErrorRead == [n |-> -1, data |-> <<>>, recs |-> <<>>, kind |-> "error"]

OverlongRec == [wd |-> 3, mask |-> IN_CREATE, cookie |-> 0, name |-> Some(NameATxt), len |-> 8]
EmptyRec == [wd |-> 3, mask |-> IN_DELETE, cookie |-> 0, name |-> None, len |-> 0]

\* a 16-byte read whose only header declares a name length of 8: the
\* record spans past the valid length.
OverlongRead ==
    [n |-> HeaderSize, data |-> SubSeq(EncodeRecord(OverlongRec), 1, HeaderSize),
     recs |-> <<>>, kind |-> "overlong"]

\* a read cut inside a header: 10 bytes.
TruncatedRead ==
    [n |-> 10, data |-> SubSeq(EncodeRecord(EmptyRec), 1, 10), recs |-> <<>>, kind |-> "truncated"]

\* a record whose name field fills the buffer up to its last 16 bytes.
LongRec ==
    [wd |-> 3, mask |-> IN_CREATE, cookie |-> 0, name |-> Some(NameATxt),
     len |-> BufferCap - 2 * HeaderSize]

\* a read filling the whole buffer: one long record, then a header that
\* declares a name length of 8 in the last 16 bytes.
FullRead ==
    [n |-> BufferCap,
     data |-> EncodeRecord(LongRec) \o SubSeq(EncodeRecord(OverlongRec), 1, HeaderSize),
     recs |-> <<>>, kind |-> "full"]

ReadResults == WellFormedReads \cup {ErrorRead, OverlongRead, TruncatedRead, FullRead}

NoRead == [n |-> 0, data |-> <<>>, recs |-> <<>>, kind |-> "none"]

\* poll(fds, 1, -1): -1, or the number of descriptors with events and the
\* revents of the one queried: POLLIN, the error bit 0x008 (POLLERR), or both.
PollResults ==
    {[ret |-> SYSCALL_ERROR, revents |-> 0], [ret |-> 0, revents |-> 0],
     [ret |-> 1, revents |-> POLLIN], [ret |-> 1, revents |-> 8 * POLLIN],
     [ret |-> 1, revents |-> POLLIN + 8 * POLLIN]}

(***************************************************************************)
(* lib.rs: the directory tree and Inotify::watch_recursive.                *)
(***************************************************************************)
\* A node of the tree.  kind "racy" is a directory that is removed between
\* the entry's is_dir test and the is_dir test of the call made for it.
\* readable: read_dir succeeds.  An entry is Ok(DirEntry) or Err.
Dir(es) == [kind |-> "dir", readable |-> TRUE, entries |-> es]
LockedDir == [kind |-> "dir", readable |-> FALSE, entries |-> <<>>]
RacyDir == [kind |-> "racy", readable |-> TRUE, entries |-> <<>>]
File == [kind |-> "file", readable |-> FALSE, entries |-> <<>>]
Ent(p) == [ok |-> TRUE, path |-> p]
EntErr == [ok |-> FALSE, path |-> ""]

\* root/{a/, b/{c/}}
PlainTree ==
    [p \in {"root", "root/a", "root/b", "root/b/c"} |->
        CASE p = "root" -> Dir(<<Ent("root/a"), Ent("root/b")>>)
          [] p = "root/b" -> Dir(<<Ent("root/b/c")>>)
          [] OTHER -> Dir(<<>>)]

\* root/{a/, f}, read_dir giving the directory before the file
FileLastTree ==
    [p \in {"root", "root/a", "root/f"} |->
        CASE p = "root" -> Dir(<<Ent("root/a"), Ent("root/f")>>)
          [] p = "root/a" -> Dir(<<>>)
          [] OTHER -> File]

\* root/{f, a/}, read_dir giving the file first
FileFirstTree ==
    [p \in {"root", "root/a", "root/f"} |->
        CASE p = "root" -> Dir(<<Ent("root/f"), Ent("root/a")>>)
          [] p = "root/a" -> Dir(<<>>)
          [] OTHER -> File]

\* root/{a/}, a without read permission
LockedTree ==
    [p \in {"root", "root/a"} |->
        IF p = "root" THEN Dir(<<Ent("root/a")>>) ELSE LockedDir]

\* root/{a/, ?}: the read of the second entry fails
EntryErrTree ==
    [p \in {"root", "root/a"} |->
        IF p = "root" THEN Dir(<<Ent("root/a"), EntErr>>) ELSE Dir(<<>>)]

\* root/{a/}, a removed while the walk is at it
RacyTree ==
    [p \in {"root", "root/a"} |->
        IF p = "root" THEN Dir(<<Ent("root/a")>>) ELSE RacyDir]

FileSystems ==
    [plain |-> PlainTree, filelast |-> FileLastTree, filefirst |-> FileFirstTree,
     locked |-> LockedTree, entryerr |-> EntryErrTree, racy |-> RacyTree]

\* the paths handed to watch_recursive; "gone" exists in no tree.
Roots == {"root", "root/a", "root/f", "gone"}

\* Option<u32>
NoDepth == [some |-> FALSE, n |-> 0]
SomeDepth(n) == [some |-> TRUE, n |-> n]
Depths == {NoDepth} \cup {SomeDepth(n) : n \in 0..MaxDepth}

\* overflow-checks on ("debug") or off ("release"): what `n - 1` does at 0.
Builds == {"debug", "release"}

\* Path::is_dir of the path watch_recursive is called with.
is_dir(fs, p) == p \in DOMAIN fs /\ fs[p].kind = "dir"

\* entry.path().is_dir() of a directory entry, made before the call for it.
entry_is_dir(fs, p) == p \in DOMAIN fs /\ fs[p].kind \in {"dir", "racy"}

\* depth.and_then(|n| Some(n - 1)) on u32.
depth_dec(depth, build) ==
    IF ~depth.some THEN [panic |-> FALSE, depth |-> NoDepth]
    ELSE IF depth.n = 0
    THEN IF build = "debug" THEN [panic |-> TRUE, depth |-> depth]
         ELSE [panic |-> FALSE, depth |-> SomeDepth(U32Max)]
    ELSE [panic |-> FALSE, depth |-> SomeDepth(depth.n - 1)]

NoError == [kind |-> "", path |-> ""]
NotDirectory(p) == [kind |-> "NotDirectory", path |-> p]

\* What a watch_recursive call comes to: Ok(self), Err(error), or a panic
\* (why: "expect" of read_dir, "todo" of the match, "overflow" of n - 1).
\* adds: the paths inotify_add_watch was called with; the function makes no
\* native call and touches no field of self, so there are none.
RecOk == [out |-> "Ok", error |-> NoError, why |-> "", adds |-> <<>>]
RecErr(e) == [out |-> "Err", error |-> e, why |-> "", adds |-> <<>>]
RecPanic(why) == [out |-> "panic", error |-> NoError, why |-> why, adds |-> <<>>]

RECURSIVE watch_recursive(_, _, _, _)
RECURSIVE walk_entries(_, _, _, _)

\* watch_recursive that goes on to read_dir without the is_dir test.
watch_recursive_unchecked(fs, pathname, depth, build) ==
    IF pathname \notin DOMAIN fs \/ ~fs[pathname].readable THEN RecPanic("expect")
    ELSE walk_entries(fs, fs[pathname].entries, depth, build)

\* Inotify::watch_recursive.
watch_recursive(fs, pathname, depth, build) ==
    IF ~is_dir(fs, pathname) THEN RecErr(NotDirectory(pathname))
    ELSE IF ~fs[pathname].readable THEN RecPanic("expect")
    ELSE walk_entries(fs, fs[pathname].entries, depth, build)

\* the for loop of watch_recursive over what is left of read_dir.
walk_entries(fs, entries, depth, build) ==
    IF entries = <<>> THEN RecOk
    ELSE LET entry == Head(entries) IN
         IF entry.ok /\ entry_is_dir(fs, entry.path)
         THEN LET d == depth_dec(depth, build) IN
              IF d.panic THEN RecPanic("overflow")
              ELSE LET r == watch_recursive(fs, entry.path, d.depth, build) IN
                   IF r.out # "Ok" THEN r
                   ELSE walk_entries(fs, Tail(entries), depth, build)
         ELSE RecPanic("todo")

(***************************************************************************)
(* State.                                                                  *)
(***************************************************************************)
VARIABLES
    sess,       \* "none" | "failed" | "live" | "dropped": the Inotify value
    fd,         \* Inotify.fd
    watchers,   \* Inotify.watchers
    kern,       \* the kernel's view of the descriptor: [open, closes]
    badUse,     \* a native call was issued on the descriptor after its close
    registered, \* wd -> the path of the last add-watch that returned wd
    nWatch,     \* watch calls made
    nPoll,      \* poll_next calls made
    call,       \* the last session/stream call and what it returned
    batch,      \* the InotifyEventBatch the caller holds
    bstate,     \* "none" | "iter" | "end" | "panic"
    yielded,    \* the events the batch has yielded
    src,        \* the read result the batch was built from
    hiRead      \* end (exclusive) of the buffer bytes read by the decoder

vars == <<sess, fd, watchers, kern, badUse, registered, nWatch, nPoll,
          call, batch, bstate, yielded, src, hiRead>>

batchVars == <<batch, bstate, yielded, src, hiRead>>

\* the session of lib.rs
VARIABLES
    lsess,      \* "none" | "failed" | "live" | "dropped": the Inotify value
    lfd,        \* Inotify.fd
    lwatchers,  \* Inotify.watchers: wd -> pathname of the InotifyWatch
    lkern,      \* the kernel: [open, closes, active (wd -> path), adds]
    lcall,      \* the last call on the session and what it came to
    nLib        \* calls made on the session

libVars == <<lsess, lfd, lwatchers, lkern, lcall, nLib>>

\* old: what path_for_watch gave for wd before a watch call; polls, pret,
\* revents: the poll syscalls of a poll_next call, and what poll returned.
NoCall == [op |-> "none", er |-> "", ret |-> "", reads |-> 0, woke |-> 0,
           path |-> "", wd |-> 0, old |-> "", polls |-> 0, pret |-> 0, revents |-> 0]

\* a panic unwinds: nothing but destructors runs afterwards.
Panicked == bstate = "panic" \/ call.ret = "panic"

\* The batch owns its buffer and shares nothing with the session, so its
\* next() calls commute with the session's calls.  The caller modelled is
\* the one of main.rs: it goes through a batch in a synchronous loop and
\* lets go of it before it turns to the session again.
CallerIdle == bstate = "none"

Max2(a, b) == IF a >= b THEN a ELSE b

\* the kernel before inotify_init: no descriptor, no watch.
NoKernel == [open |-> FALSE, closes |-> 0, active |-> EmptyMap, adds |-> 0]

\* had: the keys of watchers before the call; adds0: the add-watch calls
\* made before it; rmd: the ids inotify_rm_watch was called with in it.
NoLibCall == [op |-> "none", out |-> "", error |-> NoError, why |-> "",
              fs |-> "", root |-> "", depth |-> NoDepth, build |-> "",
              path |-> "", wd |-> 0, had |-> {}, adds0 |-> 0, rmd |-> {}]

Init ==
    /\ sess = "none"
    /\ fd = -1
    /\ watchers = EmptyMap
    /\ kern = [open |-> FALSE, closes |-> 0]
    /\ badUse = FALSE
    /\ registered = EmptyMap
    /\ nWatch = 0
    /\ nPoll = 0
    /\ call = NoCall
    /\ batch = NoBatch
    /\ bstate = "none"
    /\ yielded = <<>>
    /\ src = NoRead
    /\ hiRead = 0
    /\ lsess = "none"
    /\ lfd = -1
    /\ lwatchers = EmptyMap
    /\ lkern = NoKernel
    /\ lcall = NoLibCall
    /\ nLib = 0

\* Inotify::with_flags(flags): inotify_init1 returns a descriptor or -1.
WithFlags ==
    /\ sess = "none"
    /\ \E ret \in Fds \cup {SYSCALL_ERROR} :
         LET r == with_flags(ret)
         IN  /\ sess' = IF r.ok THEN "live" ELSE "failed"
             /\ fd' = r.fd
             /\ watchers' = r.watchers
             /\ kern' = [open |-> ret # SYSCALL_ERROR, closes |-> 0]
             /\ call' = [NoCall EXCEPT !.op = "with_flags", !.ret = IF r.ok THEN "Ok" ELSE "Err"]
    /\ UNCHANGED <<badUse, registered, nWatch, nPoll, batchVars>>
    /\ UNCHANGED libVars

\* session.watch(pathname, mask): inotify_add_watch returns a wd or -1.
Watch ==
    /\ sess = "live"
    /\ ~Panicked
    /\ CallerIdle
    /\ nWatch < MaxWatches
    /\ \E pathname \in Paths, wd \in WatchIds \cup {SYSCALL_ERROR} :
         LET r == watch(watchers, pathname, wd)
         IN  /\ badUse' = (badUse \/ ~kern.open)
             /\ registered' = IF wd # SYSCALL_ERROR
                              THEN MapInsert(registered, wd, pathname) ELSE registered
             /\ call' = [NoCall EXCEPT !.op = "watch", !.ret = IF r.ok THEN "Ok" ELSE "Err",
                                       !.path = pathname, !.wd = wd,
                                       !.old = path_for_watch(watchers, wd)]
             /\ IF r.alive
                THEN /\ sess' = "live"
                     /\ watchers' = r.watchers
                     /\ kern' = kern
                ELSE /\ sess' = "dropped"
                     /\ watchers' = EmptyMap
                     /\ kern' = drop(kern)
    /\ nWatch' = nWatch + 1
    /\ UNCHANGED <<fd, nPoll, batchVars>>
    /\ UNCHANGED libVars

\* stream.poll_next(cx): poll, then on readiness one read.
PollNext ==
    /\ sess = "live"
    /\ ~Panicked
    /\ CallerIdle
    /\ nPoll < MaxPolls
    /\ \E pr \in PollResults :
       \E rd \in IF poll_next(events_ready(pr.ret, pr.revents), NoRead).reads > 0
                 THEN ReadResults ELSE {NoRead} :
         LET er == events_ready(pr.ret, pr.revents)
             r  == poll_next(er, rd)
         IN  /\ badUse' = (badUse \/ ~kern.open)
             /\ call' = [NoCall EXCEPT !.op = "poll_next", !.er = er, !.ret = r.ret,
                                       !.reads = r.reads, !.woke = r.woke,
                                       !.polls = 1, !.pret = pr.ret,
                                       !.revents = pr.revents]
             /\ IF r.ret = "Batch"
                THEN /\ batch' = r.batch
                     /\ bstate' = "iter"
                     /\ yielded' = <<>>
                     /\ src' = rd
                     /\ hiRead' = 0
                ELSE UNCHANGED batchVars
    /\ nPoll' = nPoll + 1
    /\ UNCHANGED <<sess, fd, watchers, kern, registered, nWatch>>
    /\ UNCHANGED libVars

\* batch.next(): the caller draws the next event of the batch it holds.
BatchNext ==
    /\ bstate \in {"iter", "end"}
    /\ ~Panicked
    /\ LET r == batch_next(batch)
       IN  /\ batch' = [batch EXCEPT !.pos = r.pos]
           /\ bstate' = CASE r.out = "None" -> "end"
                          [] r.out = "panic" -> "panic"
                          [] OTHER -> "iter"
           /\ yielded' = IF r.out = "Some" THEN Append(yielded, r.event) ELSE yielded
           /\ hiRead' = Max2(hiRead, r.hi)
    /\ UNCHANGED <<sess, fd, watchers, kern, badUse, registered, nWatch, nPoll, call, src>>
    /\ UNCHANGED libVars

\* the caller lets go of the batch, drained (the end of the for loop) or
\* not; a batch has no destructor of its own.
BatchDone ==
    /\ bstate \in {"iter", "end"}
    /\ batch' = NoBatch
    /\ bstate' = "none"
    /\ yielded' = <<>>
    /\ src' = NoRead
    /\ hiRead' = 0
    /\ UNCHANGED <<sess, fd, watchers, kern, badUse, registered, nWatch, nPoll, call>>
    /\ UNCHANGED libVars

\* the session goes out of scope (also while a panic unwinds).
Drop ==
    /\ sess = "live"
    /\ CallerIdle \/ Panicked
    /\ sess' = "dropped"
    /\ watchers' = EmptyMap
    /\ kern' = drop(kern)
    /\ UNCHANGED <<fd, badUse, registered, nWatch, nPoll, call, batchVars>>
    /\ UNCHANGED libVars

Next == WithFlags \/ Watch \/ PollNext \/ BatchNext \/ BatchDone \/ Drop

Spec == Init /\ [][Next]_vars

(***************************************************************************)
(* The session of lib.rs.                                                  *)
(***************************************************************************)
\* the paths handed to watch of lib.rs
LibPaths == {"root", "root/a"}

\* what inotify_add_watch can return for a path: -1, the id the path is
\* watched under already, or else an id that is not in use.
AddWatchResults(k, pathname) ==
    {SYSCALL_ERROR} \cup
    (IF \E w \in DOMAIN k.active : k.active[w] = pathname
     THEN {w \in DOMAIN k.active : k.active[w] = pathname}
     ELSE WatchIds \ DOMAIN k.active)

\* the kernel after inotify_add_watch returned wd for pathname.
kernel_add(k, pathname, wd) ==
    [k EXCEPT !.adds = @ + 1,
              !.active = IF wd = SYSCALL_ERROR THEN @ ELSE MapInsert(@, wd, pathname)]

\* the kernel after inotify_rm_watch(fd, wd) for each wd of wds: a watch in
\* use is removed, any other id is an error that nobody looks at.
kernel_rm(k, wds) ==
    [k EXCEPT !.active = [w \in DOMAIN @ \ wds |-> @[w]]]

\* Drop for Inotify: watchers.drain() drops every InotifyWatch, each of
\* which calls inotify_rm_watch(fd, wd); then close(fd).
lib_drop(k, ws) ==
    [kernel_rm(k, DOMAIN ws) EXCEPT !.open = FALSE, !.closes = @ + 1, !.active = EmptyMap]

\* a panic unwinds: nothing but destructors runs afterwards.
LibPanicked == lcall.out = "panic"

\* Inotify::new(): inotify_init returns a descriptor or -1.
LibNew ==
    /\ lsess = "none"
    /\ \E ret \in Fds \cup {SYSCALL_ERROR} :
         /\ lsess' = IF ret = SYSCALL_ERROR THEN "failed" ELSE "live"
         /\ lfd' = ret
         /\ lkern' = [NoKernel EXCEPT !.open = ret # SYSCALL_ERROR]
         /\ lcall' = [NoLibCall EXCEPT !.op = "new",
                                       !.out = IF ret = SYSCALL_ERROR THEN "Err" ELSE "Ok",
                                       !.error = IF ret = SYSCALL_ERROR
                                                 THEN [kind |-> "InitError", path |-> ""]
                                                 ELSE NoError]
    /\ lwatchers' = EmptyMap
    /\ UNCHANGED nLib
    /\ UNCHANGED vars

\* session.watch(pathname): the id inotify_add_watch returns is not looked
\* at; the InotifyWatch is inserted under it and the one it replaces, if
\* any, is dropped, which calls inotify_rm_watch with the same id.
LibWatch ==
    /\ lsess = "live"
    /\ ~LibPanicked
    /\ nLib < MaxLibCalls
    /\ \E pathname \in LibPaths :
       \E wd \in AddWatchResults(lkern, pathname) :
         LET replaced == IF wd \in DOMAIN lwatchers THEN {wd} ELSE {}
         IN  /\ lwatchers' = MapInsert(lwatchers, wd, pathname)
             /\ lkern' = kernel_rm(kernel_add(lkern, pathname, wd), replaced)
             /\ lcall' = [NoLibCall EXCEPT !.op = "watch", !.out = "Ok",
                                           !.path = pathname, !.wd = wd,
                                           !.had = DOMAIN lwatchers,
                                           !.adds0 = lkern.adds, !.rmd = replaced]
    /\ nLib' = nLib + 1
    /\ UNCHANGED <<lsess, lfd>>
    /\ UNCHANGED vars

\* session.watch_recursive(pathname, depth).  The call owns the session: it
\* hands it back in Ok, and drops it on Err and when a panic unwinds.
LibWatchRecursive ==
    /\ lsess = "live"
    /\ ~LibPanicked
    /\ nLib < MaxLibCalls
    /\ \E f \in DOMAIN FileSystems, root \in Roots, depth \in Depths, build \in Builds :
         LET r == watch_recursive(FileSystems[f], root, depth, build)
             k == [lkern EXCEPT !.adds = @ + Len(r.adds)]
         IN  /\ lcall' = [NoLibCall EXCEPT !.op = "watch_recursive", !.out = r.out,
                                           !.error = r.error, !.why = r.why,
                                           !.fs = f, !.root = root, !.depth = depth,
                                           !.build = build, !.had = DOMAIN lwatchers,
                                           !.adds0 = lkern.adds,
                                           !.rmd = IF r.out = "Ok" THEN {}
                                                   ELSE DOMAIN lwatchers]
             /\ IF r.out = "Ok"
                THEN /\ lsess' = "live"
                     /\ lwatchers' = lwatchers
                     /\ lkern' = k
                ELSE /\ lsess' = "dropped"
                     /\ lwatchers' = EmptyMap
                     /\ lkern' = lib_drop(k, lwatchers)
    /\ nLib' = nLib + 1
    /\ UNCHANGED lfd
    /\ UNCHANGED vars

\* stream.poll_next(cx): one read of one byte, then todo!().
LibPollNext ==
    /\ lsess = "live"
    /\ ~LibPanicked
    /\ nLib < MaxLibCalls
    /\ lcall' = [NoLibCall EXCEPT !.op = "poll_next", !.out = "panic", !.why = "todo",
                                  !.had = DOMAIN lwatchers, !.adds0 = lkern.adds]
    /\ nLib' = nLib + 1
    /\ UNCHANGED <<lsess, lfd, lwatchers, lkern>>
    /\ UNCHANGED vars

\* the session goes out of scope (also while a panic unwinds).
LibDrop ==
    /\ lsess = "live"
    /\ lsess' = "dropped"
    /\ lwatchers' = EmptyMap
    /\ lkern' = lib_drop(lkern, lwatchers)
    /\ UNCHANGED <<lfd, lcall, nLib>>
    /\ UNCHANGED vars

LibNext == LibNew \/ LibWatch \/ LibWatchRecursive \/ LibPollNext \/ LibDrop

LibSpec == Init /\ [][LibNext]_libVars

(***************************************************************************)
(* Properties.                                                             *)
(***************************************************************************)

\* the header at the cursor lies inside the valid length and declares a
\* name length that makes the record span past the valid length.
RecordSpansPastValid(b) ==
    /\ b.pos + HeaderSize <= b.num_bytes
    /\ b.pos + HeaderSize + U32At(b.buffer, b.pos + 12) > b.num_bytes

\* C1: a next() call on a batch whose record at the cursor declares a name
\* length with cursor + 16 + name length > valid length fails with a decode
\* error: it yields no event and reads no byte at an index >= the valid
\* length.
C1_OverlongRecordFailsDecode ==
    [][(bstate = "iter" /\ RecordSpansPastValid(batch))
        => /\ bstate' = "decode_error"
           /\ yielded' = yielded
           /\ hiRead' <= batch.num_bytes]_vars

\* a step that is one poll_next call.
PollNextStep == nPoll' = nPoll + 1

\* C2: a poll_next call whose readiness poll reports not-ready issues no
\* read, produces no batch and returns Pending; a read is issued only in a
\* call whose readiness poll reported ready.
C2_ReadinessGating ==
    [][PollNextStep
        => /\ call'.er = "false"
                => (call'.reads = 0 /\ call'.ret = "Pending" /\ UNCHANGED batchVars)
           /\ call'.reads > 0 => call'.er = "true"]_vars

C2_Witness == call.op = "poll_next" /\ call.er = "false" /\ call.ret = "Pending" /\ nPoll = 2

\* the event a well-formed record stands for.
EventOf(r) == [wd |-> r.wd, mask |-> r.mask, cookie |-> r.cookie, name |-> r.name]

\* C3: a batch over N well-formed records encoded back-to-back, with valid
\* length their total size, yields exactly the N events encoded, in order,
\* with the same watch id, mask, cookie and name, and ends with the cursor
\* at the valid length.
C3_RoundTripDecode ==
    (src.kind = "wf" /\ bstate = "end")
        => /\ yielded = [i \in 1..Len(src.recs) |-> EventOf(src.recs[i])]
           /\ batch.pos = batch.num_bytes

\* the 40-byte buffer of the concrete scenario.
ScenarioRecs ==
    <<[wd |-> 3, mask |-> IN_CREATE, cookie |-> 0, name |-> Some(NameATxt), len |-> 8],
      [wd |-> 3, mask |-> IN_DELETE, cookie |-> 0, name |-> None, len |-> 0]>>

\* C4: a record with name length 0 decodes to an event with no name, one
\* with a non-zero name length to Some(name) with NUL and padding stripped;
\* the scenario buffer decodes to (3, CREATE, 0, Some("a.txt")) then
\* (3, DELETE, 0, None).
C4_NameDecoding ==
    /\ (src.kind = "wf" /\ bstate \in {"iter", "end"})
        => \A i \in 1..Len(yielded) :
              i <= Len(src.recs)
                => yielded[i].name =
                     (IF src.recs[i].len = 0 THEN None ELSE Some(src.recs[i].name.bytes))
    /\ (src.kind = "wf" /\ src.recs = ScenarioRecs /\ bstate = "end")
        => yielded = <<[wd |-> 3, mask |-> IN_CREATE, cookie |-> 0, name |-> Some(NameATxt)],
                       [wd |-> 3, mask |-> IN_DELETE, cookie |-> 0, name |-> None]>>

\* C5: when the read of a ready poll_next returned -1 or 0, the call gives
\* an error item or a batch that yields no event, and iterating that batch
\* does not panic.
C5_FailedReadYieldsNothing ==
    (bstate # "none" /\ src.n <= 0)
        => (yielded = <<>> /\ bstate # "panic")

\* C6: a poll_next call whose readiness poll fails returns that error as an
\* item (Ready(Some(Err))) without a read, and leaves the session as it
\* was: live, its descriptor open, its registry and the caller's batch
\* untouched, so that the next poll_next starts afresh.
C6_PollErrorIsAnItem ==
    [][(PollNextStep /\ call'.er = "Err")
        => /\ call'.ret = "Err"
           /\ call'.reads = 0
           /\ sess' = "live"
           /\ kern'.open
           /\ UNCHANGED <<sess, fd, watchers, kern, batchVars>>]_vars

C6_Witness ==
    /\ call.op = "poll_next" /\ call.er = "Err" /\ call.ret = "Err"
    /\ sess = "live" /\ kern.open /\ nPoll = 1

\* C7: poll_next never returns the end of the stream (Ready(None)): after
\* any sequence of poll and read outcomes each return is Pending, an error
\* item or a batch.
C7_StreamNeverEnds ==
    call.op = "poll_next" => call.ret \in {"Pending", "Err", "Batch"}

C7_Witness ==
    call.op = "poll_next" /\ call.ret = "Batch" /\ src.n = 0 /\ nPoll = 2 /\ bstate = "end"

\* a step that is one watch call.
WatchStep == nWatch' = nWatch + 1

\* C8: a watch call whose add-watch fails (-1) returns the error, adds no
\* entry to the registry, keeps every registered id looking up to its path,
\* and leaves the session's descriptor open and usable.
C8_FailedWatchKeepsState ==
    [][(WatchStep /\ call'.wd = SYSCALL_ERROR)
        => /\ call'.ret = "Err"
           /\ SYSCALL_ERROR \notin DOMAIN watchers'
           /\ \A w \in DOMAIN watchers : path_for_watch(watchers', w) = watchers[w]
           /\ sess' = "live"
           /\ kern'.open]_vars

\* C9: on a live session path_for_watch(id) is the path of the most recent
\* successful registration that returned id, and None for an id that no
\* registration returned; hence a registration changes the lookup of no
\* other id.
C9_RegistryLookup ==
    /\ sess = "live"
        => \A w \in WatchIds \cup {SYSCALL_ERROR, 0} :
              path_for_watch(watchers, w) =
                  (IF w \in DOMAIN registered THEN registered[w] ELSE "")
    /\ (sess = "live" /\ call.op = "watch")
        => path_for_watch(watchers, call.wd) = call.path

\* an id was returned a second time, for another path: the entry it had
\* was replaced.
C9_Witness ==
    /\ sess = "live" /\ call.op = "watch" /\ call.ret = "Ok"
    /\ call.old # "" /\ call.old # call.path
    /\ path_for_watch(watchers, call.wd) = call.path

\* C10: the descriptor of a session is closed at most once, exactly once
\* when the session has been dropped and never when the open failed, and no
\* add-watch, poll or read is issued on it after its close.
C10_DescriptorLifecycle ==
    /\ kern.closes <= 1
    /\ sess = "dropped" => (kern.closes = 1 /\ ~kern.open)
    /\ sess = "live" => (kern.closes = 0 /\ kern.open)
    /\ sess \in {"none", "failed"} => (kern.closes = 0 /\ ~kern.open)
    /\ ~badUse

C10_Witness ==
    /\ sess = "dropped" /\ kern.closes = 1 /\ ~kern.open
    /\ nWatch > 0 /\ nPoll > 0 /\ call.op = "poll_next"

\* C13: a poll_next call whose readiness poll reports ready performs
\* exactly one read, of at most 4096 bytes, and yields exactly one batch
\* holding that read's bytes: the buffer as read filled it, the read's
\* count as valid length, the cursor at 0.  Batches thus follow the reads
\* one to one, in read order.
C13_OneReadOneBatch ==
    [][(PollNextStep /\ call'.er = "true")
        => /\ call'.reads = 1
           /\ call'.ret = "Batch"
           /\ src'.n <= BufferCap
           /\ bstate' = "iter"
           /\ batch' = [buffer |-> src'.data, num_bytes |-> src'.n, pos |-> 0]]_vars

\* the POLLIN bit of a revents value.
HasPollIn(revents) == (revents \div POLLIN) % 2 = 1

\* C14: events_ready is true exactly when POLLIN is set in the revents
\* poll returned; a failed poll (-1) is returned as an error, after one
\* poll call (no retry) and without a panic.
C14_ReadyIffPollIn ==
    call.op = "poll_next"
        => /\ call.polls = 1
           /\ call.er \in {"true", "false", "Err"}
           /\ call.er = "Err" <=> call.pret = SYSCALL_ERROR
           /\ call.er = "true" <=> (call.pret # SYSCALL_ERROR /\ HasPollIn(call.revents))

\* poll returned an event that is not POLLIN: not ready.
C14_Witness ==
    /\ call.op = "poll_next" /\ call.pret = 1 /\ ~HasPollIn(call.revents)
    /\ call.er = "false"

\* the cursor after k records, walking the headers from offset 0.
RECURSIVE WalkPos(_, _)
WalkPos(data, k) ==
    IF k = 0 THEN 0
    ELSE LET p == WalkPos(data, k - 1) IN p + HeaderSize + U32At(data, p + 12)

\* C16: for a batch with valid length L <= capacity, after any number of
\* next() calls 0 <= cursor <= L, the cursor is the sum of the sizes
\* (16 + name length) of the records yielded so far, and next() has
\* returned None exactly when cursor = L.
C16_CursorInvariant ==
    (bstate \in {"iter", "end"} /\ batch.num_bytes <= BufferCap)
        => /\ 0 <= batch.pos /\ batch.pos <= batch.num_bytes
           /\ batch.pos = WalkPos(batch.buffer, Len(yielded))
           /\ bstate = "end" => batch.pos = batch.num_bytes
           /\ batch_next(batch).out = "None" <=> batch.pos = batch.num_bytes

\* fewer than 16 bytes lie between the cursor and the valid length.
HeaderTruncated(b) == b.pos < b.num_bytes /\ b.num_bytes - b.pos < HeaderSize

\* C17: a next() call with fewer than 16 bytes between the cursor and the
\* valid length reports a decode failure that ends the iteration; it builds
\* no event from header bytes at or beyond the valid length.
C17_TruncatedHeaderFailsDecode ==
    [][(bstate = "iter" /\ HeaderTruncated(batch))
        => /\ bstate' = "decode_error"
           /\ yielded' = yielded
           /\ hiRead' <= batch.num_bytes]_vars

\* C19: poll_next calls the waker exactly once in a call that returns a
\* batch and not at all in a call that returns Pending or an error item; a
\* batch comes to the caller only out of a poll_next call of its own.
C19_WakeDiscipline ==
    /\ [](call.op = "poll_next"
            => /\ call.ret = "Batch" => call.woke = 1
               /\ call.ret \in {"Pending", "Err"} => call.woke = 0)
    /\ [][(bstate = "none" /\ bstate' # "none") => (PollNextStep /\ call'.ret = "Batch")]_vars

C19_Witness == call.op = "poll_next" /\ call.ret = "Pending" /\ call.woke = 0 /\ bstate = "none"

\* ceil(n / 16)
CeilDiv16(n) == (n + (HeaderSize - 1)) \div HeaderSize

\* C20: for every batch of poll_next, whatever the read returned, the
\* next() calls terminate by returning None: each yielded event advanced
\* the cursor by at least 16, at most ceil(valid length / 16) <= 256 events
\* are yielded, no call panics, and after a None every later call returns
\* None with the cursor unchanged.
C20_FiniteBatch ==
    /\ [](bstate # "none"
            => /\ bstate # "panic"
               /\ Len(yielded) * HeaderSize <= batch.pos
               /\ Len(yielded) <= BufferCap \div HeaderSize
               /\ batch.num_bytes <= BufferCap => Len(yielded) <= CeilDiv16(batch.num_bytes))
    /\ [][(bstate = "end" /\ bstate' # "none")
            => (bstate' = "end" /\ batch' = batch /\ yielded' = yielded)]_vars

(***************************************************************************)
(* Properties of the session of lib.rs (LibSpec).                          *)
(***************************************************************************)
Range(q) == {q[i] : i \in DOMAIN q}

\* the paths registered in the kernel, and those of the registry.
KernelPaths == Range(lkern.active)
RegistryPaths == Range(lwatchers)

\* the tree of the last watch_recursive call
CallTree == FileSystems[lcall.fs]

\* at the time of the call its root is a directory
RootIsDir == lcall.root \in DOMAIN CallTree /\ CallTree[lcall.root].kind = "dir"

\* every node is a readable directory and every entry was read
OnlyDirs(fs) ==
    \A p \in DOMAIN fs :
        /\ fs[p].kind = "dir" /\ fs[p].readable
        /\ \A e \in Range(fs[p].entries) : e.ok

\* the directories a recursive install from p registers: p, and while the
\* depth is not zero those of the directories under p with the depth less one.
RECURSIVE DirsWithin(_, _, _)
DirsWithin(fs, p, depth) ==
    {p} \cup
    IF depth.some /\ depth.n = 0 THEN {}
    ELSE UNION {DirsWithin(fs, e.path,
                           IF depth.some THEN SomeDepth(depth.n - 1) ELSE NoDepth) :
                e \in {x \in Range(fs[p].entries) : x.ok /\ fs[x.path].kind = "dir"}}

\* C11: watch_recursive(root, depth) on a tree of directories returns
\* normally having registered, with one add-watch call each, root and the
\* directories within the depth bound, and no other; for root/{a/, b/{c/}}
\* depth 1 gives root, a, b and depth None all four.
C11_RecursiveDepthBound ==
    (lcall.op = "watch_recursive" /\ OnlyDirs(CallTree) /\ RootIsDir)
        => LET want == DirsWithin(CallTree, lcall.root, lcall.depth)
           IN  /\ lcall.out = "Ok"
               /\ lkern.adds - lcall.adds0 = Cardinality(want)
               /\ want \subseteq KernelPaths
               /\ want \subseteq RegistryPaths

\* C12: watch_recursive with a root that is not a directory fails with
\* NotDirectory carrying that root; no add-watch call was made in it and
\* the registry has no entry it did not have before.
C12_NotDirectoryRoot ==
    (lcall.op = "watch_recursive" /\ ~RootIsDir)
        => /\ lcall.out = "Err"
           /\ lcall.error = NotDirectory(lcall.root)
           /\ lkern.adds = lcall.adds0
           /\ DOMAIN lwatchers \subseteq lcall.had

\* the root is a regular file, on a session that holds a watch.
C12_Witness ==
    /\ lcall.op = "watch_recursive" /\ lcall.fs = "filelast" /\ lcall.root = "root/f"
    /\ lcall.had # {}
    /\ lcall.out = "Err"

\* p and everything below it in the tree
RECURSIVE Under(_, _)
Under(fs, p) ==
    {p} \cup UNION {Under(fs, e.path) : e \in {x \in Range(fs[p].entries) : x.ok}}

\* some directory at or below root cannot be read, or is gone when the walk
\* comes to it, or the read of one of its entries fails
HasTraversalError(fs, root) ==
    \E p \in Under(fs, root) :
        \/ fs[p].kind = "dir" /\ ~fs[p].readable
        \/ fs[p].kind = "racy"
        \/ \E e \in Range(fs[p].entries) : ~e.ok

\* C15: when a traversal error occurs part-way through watch_recursive
\* (depth None, so that the walk comes to it), the call returns it as an
\* error value and the watches registered before it are still in the
\* registry and in the kernel: no remove-watch was issued for them.
C15_FirstErrorNoRollback ==
    (lcall.op = "watch_recursive" /\ RootIsDir /\ ~lcall.depth.some
        /\ HasTraversalError(CallTree, lcall.root))
        => /\ lcall.out = "Err"
           /\ lcall.rmd = {}
           /\ lcall.had \subseteq DOMAIN lwatchers
           /\ lkern.open

\* some entry of the tree is not a directory
HasFileEntry(fs) == \E p \in DOMAIN fs : fs[p].kind = "file"

\* the tree without its non-directory entries
WithoutFiles(fs) ==
    [p \in {q \in DOMAIN fs : fs[q].kind # "file"} |->
        LET IsKept(e) == ~e.ok \/ fs[e.path].kind # "file"
        IN  [fs[p] EXCEPT !.entries = SelectSeq(@, IsKept)]]

\* C18: on a tree with non-directory entries watch_recursive comes to what
\* it comes to on the tree without them, and does not panic at them; nor
\* does it panic at an entry whose read fails.
C18_NonDirectoriesSkipped ==
    (lcall.op = "watch_recursive" /\ RootIsDir)
        => /\ HasFileEntry(CallTree)
                => LET ref == watch_recursive(WithoutFiles(CallTree), lcall.root,
                                              lcall.depth, lcall.build)
                   IN  /\ lcall.out = ref.out
                       /\ lcall.why = ref.why
                       /\ lcall.error = ref.error
           /\ lcall.why # "todo"

\* C21: on a live session of lib.rs every key of watchers is a watch id
\* that is active in the kernel for the session's descriptor, and a watch
\* call issues inotify_rm_watch for no id whose entry is in the map after
\* the call, and never for the failure value -1.
C21_RegistryMatchesKernel ==
    (lsess = "live" /\ ~LibPanicked)
        => /\ DOMAIN lwatchers \subseteq DOMAIN lkern.active
           /\ lcall.op = "watch"
                => /\ lcall.rmd \cap DOMAIN lwatchers = {}
                   /\ SYSCALL_ERROR \notin lcall.rmd

====
